---- MODULE Spec2Model ----
(***************************************************************************)
(* hickle/loaders/load_python3.py: the dumpers (create_*_dataset) and the  *)
(* loaders (load_*_dataset) of the built-in python types, with the two     *)
(* registries types_dict and hkl_types_dict that dispatch to them.         *)
(*                                                                         *)
(* A python value is a record [kind, val]: kind is the exact runtime type  *)
(* name (type(py_obj).__name__), val its content.  Floats and the two      *)
(* parts of a complex are counted in halves (val 3 is 1.5); bytes and str  *)
(* contents are TLA+ strings and are told apart by kind.  An ASCII tag     *)
(* (bytes(s, 'ascii')) is the string of its characters.                    *)
(*                                                                         *)
(* A node of the h5py group is a record                                    *)
(*   [attrs, shape, dtype, data, options]                                  *)
(* attrs is the attribute dictionary, shape is << >> for a scalar dataset  *)
(* and <<n>> for a one-dimensional one, data is the scalar cell or the     *)
(* sequence of cells, options are the keyword options the dataset was      *)
(* created with.                                                           *)
(***************************************************************************)
EXTENDS FiniteSets, Integers, Sequences, TLC

VARIABLES h_group, dumped, kwargs, ret

vars == <<h_group, dumped, kwargs, ret>>

(* ------------------------------ bounds -------------------------------- *)

\* Longest container value and longest array payload.
MaxLen == 2

\* Elements of the container values.
Elems == {1, 2}

\* The positions (call_id) a caller dumps at.
CallIds == {0, 1}

\* The keyword options (**kwargs) a caller passes: none, or a compression.
KwargsChoices == {{}, {<<"compression", "gzip">>}}

SeqsUpTo(S, n) == UNION {[1..m -> S] : m \in 0..n}

(* --------------------------- python values ---------------------------- *)

Kinds ==
  {"list", "tuple", "set", "bytes", "str", "int", "float", "bool", "complex",
   "NoneType"}

BytesVals == {"", "ab"}

StrVals == {"", "ab"}

IntVals == {0, 1}

FloatVals == {1, 3}

ComplexVals == {<<0, 0>>, <<6, 8>>}

ValsOf(K) ==
  CASE K \in {"list", "tuple"} -> SeqsUpTo(Elems, MaxLen)
    [] K = "set" -> {s \in SUBSET Elems : Cardinality(s) <= MaxLen}
    [] K = "bytes" -> BytesVals
    [] K = "str" -> StrVals
    [] K = "int" -> IntVals
    [] K = "float" -> FloatVals
    [] K = "bool" -> BOOLEAN
    [] K = "complex" -> ComplexVals
    [] K = "NoneType" -> {"None"}

PyValue(K, v) == [kind |-> K, val |-> v]

None == PyValue("NoneType", "None")

\* Equality of two python values in kind and in content (kind first: the
\* contents of two kinds are not comparable).
SameValue(a, b) == a.kind = b.kind /\ a.val = b.val

\* type(py_obj)
type(py_obj) == py_obj.kind

\* Mutant: the bare name of the type instead of str(type(py_obj)).
str_type_name(py_obj) == type(py_obj)

\* str(type(py_obj))
str_type(py_obj) == "<class '" \o type(py_obj) \o "'>"

\* isinstance(py_obj, cls) for cls in bytes, str: neither has a subclass
\* among the kinds.
isinstance(py_obj, cls) == type(py_obj) = cls

\* list(py_obj) of a list, tuple or set: the elements in iteration order.  A
\* set's iteration order is the implementation's: every order is possible.
list(py_obj) ==
  IF type(py_obj) = "set"
  THEN {f \in [1..Cardinality(py_obj.val) -> py_obj.val] :
          \A i, j \in DOMAIN f : i # j => f[i] # f[j]}
  ELSE {py_obj.val}

(* ------------------------------ results ------------------------------- *)

NoValue == [kind |-> "<nothing>", val |-> "<nothing>"]

Return(v) == [status |-> "return", exc |-> "", value |-> v]

Raise(e) == [status |-> "raise", exc |-> e, value |-> NoValue]

\* The last call: op is "dump" or "load", arg is the call_id of a dump and
\* the name of the node of a load, name is the dataset created or read.
Call(op, arg, name, r) ==
  [op |-> op, arg |-> arg, name |-> name, status |-> r.status,
   exc |-> r.exc, value |-> r.value]

(* ----------------------------- registries ----------------------------- *)

types_dict ==
  [K \in Kinds |->
     CASE K \in {"list", "tuple", "set"} -> "create_listlike_dataset"
       [] K \in {"bytes", "str"} -> "create_stringlike_dataset"
       [] K \in {"int", "float", "bool", "complex"} ->
            "create_python_dtype_dataset"
       [] K = "NoneType" -> "create_none_dataset"]

hkl_types_dict ==
  ("<class 'list'>" :> "load_list_dataset")
  @@ ("<class 'tuple'>" :> "load_tuple_dataset")
  @@ ("<class 'set'>" :> "load_set_dataset")
  @@ ("bytes" :> "load_bytes_dataset")
  @@ ("python_dtype" :> "load_python_dtype_dataset")
  @@ ("string" :> "load_string_dataset")
  @@ ("none" :> "load_none_dataset")

(* ------------------------------ dumpers ------------------------------- *)

\* Mutant: the call_id left out of the dataset's name.
DataName_fixed(call_id) == "data_0"

\* 'data_%i' % call_id
DataName(call_id) == "data_" \o ToString(call_id)

\* numpy's dtype of a list of python ints (an empty list is float64).
ArrayDtype(obj) == IF obj = << >> THEN "float64" ELSE "int64"

\* h5py's dtype for dtype=type(py_obj).
ScalarDtype(py_obj) ==
  CASE type(py_obj) = "int" -> "int64"
    [] type(py_obj) = "float" -> "float64"
    [] type(py_obj) = "bool" -> "bool"
    [] type(py_obj) = "complex" -> "complex128"

Node(attrs, shape, dtype, data, options) ==
  [attrs |-> attrs, shape |-> shape, dtype |-> dtype, data |-> data,
   options |-> options]

\* h_group.create_dataset(name, ...) followed by the handler's writes to the
\* new dataset: h5py refuses a name the group already holds.
create_dataset(py_obj, call_id, node) ==
  LET name == DataName(call_id)
  IN IF name \in DOMAIN h_group
     THEN /\ ret' = Call("dump", call_id, name, Raise("ValueError"))
          /\ UNCHANGED <<h_group, dumped>>
     ELSE /\ h_group' = h_group @@ (name :> node)
          /\ dumped' = dumped @@ (name :> py_obj)
          /\ ret' = Call("dump", call_id, name, Return(None))

ListlikeNode(py_obj, obj, kw) ==
  Node("type" :> <<str_type(py_obj)>>, <<Len(obj)>>, ArrayDtype(obj), obj,
       kw)

create_listlike_dataset(py_obj, call_id, kw) ==
  \E obj \in list(py_obj) :
    create_dataset(py_obj, call_id, ListlikeNode(py_obj, obj, kw))

\* Mutant: the options passed on to the scalar dataset.
PythonDtypeNode_kwargs(py_obj, kw) ==
  Node(("type" :> <<"python_dtype">>)
         @@ ("python_subdtype" :> "<class '" \o py_obj.kind \o "'>"),
       << >>,
       CASE py_obj.kind = "int" -> "int64"
         [] py_obj.kind = "float" -> "float64"
         [] py_obj.kind = "bool" -> "bool"
         [] py_obj.kind = "complex" -> "complex128",
       py_obj.val, kw)

\* Mutant: the python_subdtype attribute not written.
PythonDtypeNode_no_subdtype(py_obj, kw) ==
  Node("type" :> <<"python_dtype">>, << >>,
       CASE py_obj.kind = "int" -> "int64"
         [] py_obj.kind = "float" -> "float64"
         [] py_obj.kind = "bool" -> "bool"
         [] py_obj.kind = "complex" -> "complex128",
       py_obj.val, {})

PythonDtypeNode(py_obj, kw) ==
  Node(("type" :> <<"python_dtype">>)
         @@ ("python_subdtype" :> str_type(py_obj)),
       << >>, ScalarDtype(py_obj), py_obj.val, {})

create_python_dtype_dataset(py_obj, call_id, kw) ==
  create_dataset(py_obj, call_id, PythonDtypeNode(py_obj, kw))

StringlikeNode(py_obj, kw) ==
  IF isinstance(py_obj, "bytes")
  THEN Node("type" :> <<"bytes">>, <<1>>, "S", <<py_obj.val>>, kw)
  ELSE Node("type" :> <<"string">>, <<1>>, "vlen_str", <<py_obj.val>>, kw)

create_stringlike_dataset(py_obj, call_id, kw) ==
  IF isinstance(py_obj, "bytes") \/ isinstance(py_obj, "str")
  THEN create_dataset(py_obj, call_id, StringlikeNode(py_obj, kw))
  ELSE /\ ret' = Call("dump", call_id, DataName(call_id), Return(None))
       /\ UNCHANGED <<h_group, dumped>>

NoneNode(py_obj, kw) ==
  Node("type" :> <<"none">>, <<1>>, "int64", <<0>>, kw)

create_none_dataset(py_obj, call_id, kw) ==
  create_dataset(py_obj, call_id, NoneNode(py_obj, kw))

(* ------------------------------ loaders ------------------------------- *)

\* hickle.helpers.get_type_and_data: the node's tag and its payload.
get_type_and_data(h_node) == <<h_node.attrs["type"][1], h_node.data>>

\* tuple(data), list(data): the payload's cells in payload order.
cells(data) == [i \in 1..Len(data) |-> data[i]]

\* set(data): the distinct cells of the payload.
set(data) == {data[i] : i \in 1..Len(data)}

load_list_dataset(h_node) ==
  LET data == get_type_and_data(h_node)[2]
  IN Return(PyValue("list", cells(data)))

\* Mutant: a tuple node loaded as a list.
load_tuple_dataset_as_list(h_node) ==
  Return(PyValue("list", cells(h_node.data)))

load_tuple_dataset(h_node) ==
  LET data == get_type_and_data(h_node)[2]
  IN Return(PyValue("tuple", cells(data)))

\* Mutant: a payload with a duplicate cell refused.
load_set_dataset_strict(h_node) ==
  IF Cardinality({h_node.data[i] : i \in 1..Len(h_node.data)})
       = Len(h_node.data)
  THEN Return(PyValue("set", {h_node.data[i] : i \in 1..Len(h_node.data)}))
  ELSE Raise("ValueError")

load_set_dataset(h_node) ==
  LET data == get_type_and_data(h_node)[2]
  IN Return(PyValue("set", set(data)))

\* bytes(x) of a cell of a byte-string array; of a text cell it needs an
\* encoding and raises.
bytes(x, dtype) ==
  IF dtype = "S" THEN Return(PyValue("bytes", x)) ELSE Raise("TypeError")

\* str(x) of a cell of a text array; of a byte-string cell it is its repr.
str(x, dtype) ==
  IF dtype = "vlen_str"
  THEN Return(PyValue("str", x))
  ELSE Return(PyValue("str", "b'" \o x \o "'"))

\* Mutant: the last cell instead of the first.
last(data) == data[Len(data)]

\* data[0]
first(data) == data[1]

load_bytes_dataset(h_node) ==
  LET data == get_type_and_data(h_node)[2]
  IN IF Len(data) = 0
     THEN Raise("IndexError")
     ELSE bytes(first(data), h_node.dtype)

load_string_dataset(h_node) ==
  LET data == get_type_and_data(h_node)[2]
  IN IF Len(data) = 0
     THEN Raise("IndexError")
     ELSE str(first(data), h_node.dtype)

\* Mutant: the placeholder read before None is returned.
load_none_dataset_first(h_node) ==
  IF Len(h_node.data) = 0 THEN Raise("IndexError") ELSE Return(None)

load_none_dataset(h_node) == Return(None)

\* The python constructors applied to a scalar cell x of the given dtype.
bool(x, dtype) ==
  CASE dtype = "bool" -> x
    [] dtype \in {"int64", "float64"} -> x # 0
    [] dtype = "complex128" -> x # <<0, 0>>

int(x, dtype) ==
  CASE dtype = "int64" -> Return(PyValue("int", x))
    [] dtype = "bool" -> Return(PyValue("int", IF x THEN 1 ELSE 0))
    [] dtype = "float64" ->
         Return(PyValue("int", IF x >= 0 THEN x \div 2 ELSE -((-x) \div 2)))
    [] dtype = "complex128" -> Raise("TypeError")

float(x, dtype) ==
  CASE dtype = "float64" -> Return(PyValue("float", x))
    [] dtype = "int64" -> Return(PyValue("float", 2 * x))
    [] dtype = "bool" -> Return(PyValue("float", IF x THEN 2 ELSE 0))
    [] dtype = "complex128" -> Raise("TypeError")

complex(x, dtype) ==
  CASE dtype = "complex128" -> Return(PyValue("complex", x))
    [] dtype = "float64" -> Return(PyValue("complex", <<x, 0>>))
    [] dtype = "int64" -> Return(PyValue("complex", <<2 * x, 0>>))
    [] dtype = "bool" -> Return(PyValue("complex", <<IF x THEN 2 ELSE 0, 0>>))

\* Mutant: the bool entry of the table naming int.
type_dict_bool_int ==
  ("<class 'int'>" :> "int")
  @@ ("<class 'float'>" :> "float")
  @@ ("<class 'bool'>" :> "int")
  @@ ("<class 'complex'>" :> "complex")

\* The table of load_python_dtype_dataset.
type_dict ==
  ("<class 'int'>" :> "int")
  @@ ("<class 'float'>" :> "float")
  @@ ("<class 'bool'>" :> "bool")
  @@ ("<class 'complex'>" :> "complex")

\* Mutant: a missing key defaulting to int.
type_dict_get_default(subtype) ==
  IF subtype \in {"<class 'int'>", "<class 'float'>", "<class 'bool'>",
                  "<class 'complex'>"}
  THEN (("<class 'int'>" :> "int") @@ ("<class 'float'>" :> "float")
        @@ ("<class 'bool'>" :> "bool")
        @@ ("<class 'complex'>" :> "complex"))[subtype]
  ELSE "int"

\* type_dict.get(subtype): None when the key is missing.
type_dict_get(subtype) ==
  IF subtype \in DOMAIN type_dict THEN type_dict[subtype] ELSE "None"

\* tcast(data)
tcast_call(tcast, data, dtype) ==
  CASE tcast = "int" -> int(data, dtype)
    [] tcast = "float" -> float(data, dtype)
    [] tcast = "bool" -> Return(PyValue("bool", bool(data, dtype)))
    [] tcast = "complex" -> complex(data, dtype)
    [] tcast = "None" -> Raise("TypeError")

load_python_dtype_dataset(h_node) ==
  LET data == get_type_and_data(h_node)[2]
  IN IF "python_subdtype" \notin DOMAIN h_node.attrs
     THEN Raise("KeyError")
     ELSE LET subtype == h_node.attrs["python_subdtype"]
              tcast == type_dict_get(subtype)
          IN tcast_call(tcast, data, h_node.dtype)

\* The loader the registry holds for a node's tag, applied to the node.
load(loader, h_node) ==
  CASE loader = "load_list_dataset" -> load_list_dataset(h_node)
    [] loader = "load_tuple_dataset" -> load_tuple_dataset(h_node)
    [] loader = "load_set_dataset" -> load_set_dataset(h_node)
    [] loader = "load_bytes_dataset" -> load_bytes_dataset(h_node)
    [] loader = "load_string_dataset" -> load_string_dataset(h_node)
    [] loader = "load_none_dataset" -> load_none_dataset(h_node)
    [] loader = "load_python_dtype_dataset" -> load_python_dtype_dataset(h_node)

(* ------------------------------ actions ------------------------------- *)

\* A dump call: the converter types_dict holds for the value's exact type,
\* called with the session's keyword options.
DumpListlike ==
  \E K \in Kinds :
    \E v \in ValsOf(K), call_id \in CallIds :
      /\ types_dict[K] = "create_listlike_dataset"
      /\ create_listlike_dataset(PyValue(K, v), call_id, kwargs)
      /\ UNCHANGED kwargs

DumpPythonDtype ==
  \E K \in Kinds :
    \E v \in ValsOf(K), call_id \in CallIds :
      /\ types_dict[K] = "create_python_dtype_dataset"
      /\ create_python_dtype_dataset(PyValue(K, v), call_id, kwargs)
      /\ UNCHANGED kwargs

DumpStringlike ==
  \E K \in Kinds :
    \E v \in ValsOf(K), call_id \in CallIds :
      /\ types_dict[K] = "create_stringlike_dataset"
      /\ create_stringlike_dataset(PyValue(K, v), call_id, kwargs)
      /\ UNCHANGED kwargs

DumpNone ==
  \E K \in Kinds :
    \E v \in ValsOf(K), call_id \in CallIds :
      /\ types_dict[K] = "create_none_dataset"
      /\ create_none_dataset(PyValue(K, v), call_id, kwargs)
      /\ UNCHANGED kwargs

\* A load call on a node of the group: the loader hkl_types_dict holds for
\* the node's tag.
Load(loader, name) ==
  LET h_node == h_group[name]
      py_type == get_type_and_data(h_node)[1]
  IN /\ py_type \in DOMAIN hkl_types_dict
     /\ hkl_types_dict[py_type] = loader
     /\ ret' = Call("load", name, name, load(loader, h_node))
     /\ UNCHANGED <<h_group, dumped, kwargs>>

LoadList == \E name \in DOMAIN h_group : Load("load_list_dataset", name)

LoadTuple == \E name \in DOMAIN h_group : Load("load_tuple_dataset", name)

LoadSet == \E name \in DOMAIN h_group : Load("load_set_dataset", name)

LoadBytes == \E name \in DOMAIN h_group : Load("load_bytes_dataset", name)

LoadString == \E name \in DOMAIN h_group : Load("load_string_dataset", name)

LoadNone == \E name \in DOMAIN h_group : Load("load_none_dataset", name)

LoadPythonDtype ==
  \E name \in DOMAIN h_group : Load("load_python_dtype_dataset", name)

NoCall ==
  [op |-> "", arg |-> "", name |-> "", status |-> "", exc |-> "",
   value |-> NoValue]

\* A new, empty group.
Init ==
  /\ h_group = << >>
  /\ dumped = << >>
  /\ kwargs \in KwargsChoices
  /\ ret = NoCall

NextLoad ==
  \/ LoadList
  \/ LoadTuple
  \/ LoadSet
  \/ LoadBytes
  \/ LoadString
  \/ LoadNone
  \/ LoadPythonDtype

Next ==
  \/ DumpListlike
  \/ DumpPythonDtype
  \/ DumpStringlike
  \/ DumpNone
  \/ NextLoad

Spec == Init /\ [][Next]_vars

(* ---------------------- loading an existing file ---------------------- *)

\* The cells a scalar dataset of the given dtype may hold.
CellsOf(dtype) ==
  CASE dtype = "int64" -> IntVals
    [] dtype = "float64" -> FloatVals
    [] dtype = "bool" -> BOOLEAN
    [] dtype = "complex128" -> ComplexVals

\* python_subdtype attributes a file may hold: the four the dumpers write,
\* the tag a python 2 dump wrote, another class, an empty tag.
FileSubdtypes ==
  {"<class 'int'>", "<class 'float'>", "<class 'bool'>", "<class 'complex'>",
   "<type 'int'>", "<class 'str'>", ""}

\* A one-dimensional dataset of a file: any payload of up to MaxLen cells.
FileArrays(tag, dtype, cellset) ==
  {Node("type" :> <<tag>>, <<Len(data)>>, dtype, data, {}) :
     data \in SeqsUpTo(cellset, MaxLen)}

\* A scalar python_dtype dataset of a file, with or without its subtype tag.
FileScalars(dtype) ==
  {Node(("type" :> <<"python_dtype">>) @@ ("python_subdtype" :> subtype),
        << >>, dtype, x, {}) :
     subtype \in FileSubdtypes, x \in CellsOf(dtype)}
  \cup {Node("type" :> <<"python_dtype">>, << >>, dtype, x, {}) :
          x \in CellsOf(dtype)}

\* A group read from an existing file: one node under a registered tag, its
\* payload and subtype tag whatever the file holds.
InitFile ==
  /\ \/ \E tag \in {"<class 'list'>", "<class 'tuple'>", "<class 'set'>",
                    "none"} :
          \E node \in FileArrays(tag, "int64", Elems) :
            h_group = ("data_0" :> node)
     \/ \E tag \in {"bytes", "string", "none"}, dtype \in {"S", "vlen_str"} :
          \E node \in FileArrays(tag, dtype, StrVals) :
            h_group = ("data_0" :> node)
     \/ \E dtype \in {"int64", "float64", "bool", "complex128"} :
          \E node \in FileScalars(dtype) :
            h_group = ("data_0" :> node)
  /\ dumped = << >>
  /\ kwargs = {}
  /\ ret = NoCall

SpecFile == InitFile /\ [][NextLoad]_vars

(* ------------------------------- claims ------------------------------- *)

\* The node a load call read.
Loaded == h_group[ret.name]

\* The tag of a node.
TagOf(h_node) == h_node.attrs["type"][1]

\* What loading a node through the registry gives.
Decode(h_node) == load(hkl_types_dict[TagOf(h_node)], h_node)

NumericKinds == {"int", "float", "bool", "complex"}

\* The four keys of the loader's numeric-kind table, and the kind each names.
NumericKindOfTag ==
  ("<class 'int'>" :> "int")
  @@ ("<class 'float'>" :> "float")
  @@ ("<class 'bool'>" :> "bool")
  @@ ("<class 'complex'>" :> "complex")

\* C1 (round trip): every node a dumper wrote for a value v of a registered
\* kind has a tag the loader registry holds, and the loader under that tag
\* returns a value of v's kind and equal to v; so does every load call made.
C1_RoundTrip ==
  /\ \A name \in DOMAIN dumped :
       /\ TagOf(h_group[name]) \in DOMAIN hkl_types_dict
       /\ Decode(h_group[name]).status = "return"
       /\ SameValue(Decode(h_group[name]).value, dumped[name])
  /\ ret.op = "load" =>
       ret.status = "return" /\ SameValue(ret.value, dumped[ret.name])

\* A two-element tuple was dumped and loaded back as that tuple.
C1_Witness ==
  /\ ret.op = "load"
  /\ ret.status = "return"
  /\ ret.value.kind = "tuple"
  /\ ret.value.val = <<2, 1>>
  /\ dumped[ret.name].kind = "tuple"

\* C2 (tag completeness): after any sequence of dumps every node of the
\* group has a type attribute that is a sequence of length 1 whose tag is a
\* key of hkl_types_dict.
C2_TagCompleteness ==
  \A name \in DOMAIN h_group :
    /\ "type" \in DOMAIN h_group[name].attrs
    /\ Len(h_group[name].attrs["type"]) = 1
    /\ h_group[name].attrs["type"][1] \in
         {"<class 'list'>", "<class 'tuple'>", "<class 'set'>", "bytes",
          "python_dtype", "string", "none"}
    /\ h_group[name].attrs["type"][1] \in DOMAIN hkl_types_dict

\* The group holds the node of a set and the node of a tuple.
C2_Witness ==
  /\ \E name \in DOMAIN h_group : dumped[name].kind = "set"
  /\ \E name \in DOMAIN h_group : dumped[name].kind = "tuple"

\* C3 as stated: the caller's options are on the node of a container, a
\* byte string or a text string, and never on the node of a scalar-numeric
\* value or of None.
C3_OptionsNeverOnScalarOrNone ==
  \A name \in DOMAIN dumped :
    IF dumped[name].kind \in NumericKinds \cup {"NoneType"}
    THEN h_group[name].options = {}
    ELSE h_group[name].options = kwargs

\* C3 as amended: the caller's options are on the node of a container, a
\* byte string, a text string or None, and never on the node of a
\* scalar-numeric value, whose dump succeeds all the same (a dump raises
\* only for a name the group already holds).
C3_OptionsNeverOnScalar ==
  /\ \A name \in DOMAIN dumped :
       IF dumped[name].kind \in NumericKinds
       THEN h_group[name].options = {}
       ELSE h_group[name].options = kwargs
  /\ (ret.op = "dump" /\ ret.status = "raise") =>
       ret.exc = "ValueError" /\ ret.name \in DOMAIN h_group

\* Dumped with a compression option: None, then a scalar.
C3_Witness ==
  /\ kwargs # {}
  /\ \E name \in DOMAIN dumped :
       dumped[name].kind = "NoneType" /\ h_group[name].options = kwargs
  /\ ret.op = "dump"
  /\ ret.status = "return"
  /\ dumped[ret.name].kind \in NumericKinds
  /\ h_group[ret.name].options = {}

\* C4 (unknown subtype): loading a python_dtype node whose python_subdtype
\* is none of the four keys of the numeric-kind table raises (python's
\* TypeError, from calling the missed lookup) and returns no value.
C4_UnknownSubtypeFails ==
  (/\ ret.op = "load"
   /\ TagOf(Loaded) = "python_dtype"
   /\ "python_subdtype" \in DOMAIN Loaded.attrs
   /\ Loaded.attrs["python_subdtype"] \notin DOMAIN NumericKindOfTag)
  => /\ ret.status = "raise"
     /\ ret.exc = "TypeError"
     /\ ret.value.kind = NoValue.kind

\* A node with a python 2 subtype tag was loaded.
C4_Witness ==
  /\ ret.op = "load"
  /\ TagOf(Loaded) = "python_dtype"
  /\ "python_subdtype" \in DOMAIN Loaded.attrs
  /\ Loaded.attrs["python_subdtype"] = "<type 'int'>"

\* C5 as stated: loading a string, bytes or none node whose payload length
\* is not 1 raises.
C5_WrongLengthFails ==
  (/\ ret.op = "load"
   /\ TagOf(Loaded) \in {"string", "bytes", "none"}
   /\ Len(Loaded.data) # 1)
  => ret.status = "raise"

\* The same node with only the first cell of its payload.
FirstCellOnly(h_node) ==
  [h_node EXCEPT !.data = <<h_node.data[1]>>, !.shape = <<1>>]

SameResult(r, q) ==
  r.status = q.status /\ r.exc = q.exc /\ SameValue(r.value, q.value)

\* C5 as amended: loading a string or bytes node with an empty payload
\* raises (python's IndexError) and returns no value; a payload of two or
\* more cells is not refused, and loads as its first cell alone would; a
\* none node loads as None whatever its payload length.
C5_EmptyFailsLongerLoadsFirst ==
  ret.op = "load" =>
    /\ (TagOf(Loaded) \in {"string", "bytes"} /\ Len(Loaded.data) = 0) =>
         /\ ret.status = "raise"
         /\ ret.exc = "IndexError"
         /\ ret.value.kind = NoValue.kind
    /\ (TagOf(Loaded) \in {"string", "bytes"} /\ Len(Loaded.data) >= 1) =>
         /\ SameResult(ret, Decode(FirstCellOnly(Loaded)))
         /\ Loaded.dtype = (IF TagOf(Loaded) = "bytes" THEN "S" ELSE "vlen_str")
              => /\ ret.status = "return"
                 /\ ret.value.val = Loaded.data[1]
    /\ TagOf(Loaded) = "none" =>
         ret.status = "return" /\ SameValue(ret.value, None)

\* A string node with a payload of two different cells was loaded.
C5_Witness ==
  /\ ret.op = "load"
  /\ TagOf(Loaded) = "string"
  /\ Len(Loaded.data) = 2
  /\ Loaded.data[1] # Loaded.data[2]

\* A node as a dumper wrote it, its payload replaced by a scalar of another
\* dtype.
WithPayload(h_node, dtype, x) == [h_node EXCEPT !.dtype = dtype, !.data = x]

\* C6 (subtype fidelity): the node of a scalar-numeric value v carries as
\* python_subdtype the tag of v's exact kind (bool for True and False), it
\* loads as a value of that kind equal to v, and the kind of the loaded
\* value is the one the subtype tag names whatever scalar the payload is.
C6_SubtypeFidelity ==
  \A name \in DOMAIN dumped :
    dumped[name].kind \in NumericKinds =>
      LET h_node == h_group[name]
          subtype == h_node.attrs["python_subdtype"]
      IN /\ subtype \in DOMAIN NumericKindOfTag
         /\ NumericKindOfTag[subtype] = dumped[name].kind
         /\ Decode(h_node).status = "return"
         /\ SameValue(Decode(h_node).value, dumped[name])
         /\ \A dtype \in {"int64", "float64", "bool", "complex128"} :
              \A x \in CellsOf(dtype) :
                LET r == Decode(WithPayload(h_node, dtype, x))
                IN r.status = "return" =>
                     r.value.kind = NumericKindOfTag[subtype]
         /\ (ret.op = "load" /\ ret.name = name) =>
              ret.status = "return" /\ ret.value.kind = dumped[name].kind

\* True was dumped and loaded back as the boolean True.
C6_Witness ==
  /\ ret.op = "load"
  /\ ret.status = "return"
  /\ dumped[ret.name].kind = "bool"
  /\ dumped[ret.name].val = TRUE
  /\ ret.value.kind = "bool"
  /\ ret.value.val = TRUE

\* C7 (none): loading a node tagged none returns None whatever its payload.
C7_NoneIgnoresPayload ==
  (ret.op = "load" /\ TagOf(Loaded) = "none") =>
    /\ ret.status = "return"
    /\ SameValue(ret.value, None)

\* A none node whose payload is two text cells was loaded.
C7_Witness ==
  /\ ret.op = "load"
  /\ TagOf(Loaded) = "none"
  /\ Loaded.dtype = "vlen_str"
  /\ Len(Loaded.data) = 2
  /\ SameValue(ret.value, None)

\* C8 (frame): a dump call that returns created exactly one node, under
\* data_<call_id>, and left every other node as it was; a load call left
\* the whole group as it was.
C8_Frame ==
  [][/\ (ret'.op = "dump" /\ ret'.status = "return") =>
          /\ ret'.name \notin DOMAIN h_group
          /\ DOMAIN h_group' = DOMAIN h_group \cup {ret'.name}
          /\ Cardinality(DOMAIN h_group' \ DOMAIN h_group) = 1
          /\ \E call_id \in CallIds :
               /\ ret'.arg = call_id
               /\ ret'.name = (IF call_id = 0 THEN "data_0" ELSE "data_1")
          /\ \A name \in DOMAIN h_group : h_group'[name] = h_group[name]
     /\ ret'.op = "load" => h_group' = h_group]_vars

\* A second dump returned: the group holds two nodes.
C8_Witness ==
  /\ ret.op = "dump"
  /\ ret.status = "return"
  /\ ret.arg = 1
  /\ Cardinality(DOMAIN h_group) = 2

\* C9 (set collapse): loading a set node returns the set of the distinct
\* cells of its payload, duplicates or not; loading a list or a tuple node
\* returns a sequence of the payload's length with its cells in its order.
C9_SetCollapse ==
  ret.op = "load" =>
    /\ TagOf(Loaded) = "<class 'set'>" =>
         /\ ret.status = "return"
         /\ ret.value.kind = "set"
         /\ \A x \in Elems :
              x \in ret.value.val <=>
                \E i \in 1..Len(Loaded.data) : Loaded.data[i] = x
         /\ ret.value.val \subseteq Elems
    /\ TagOf(Loaded) \in {"<class 'list'>", "<class 'tuple'>"} =>
         /\ ret.status = "return"
         /\ ret.value.kind =
              (IF TagOf(Loaded) = "<class 'list'>" THEN "list" ELSE "tuple")
         /\ Len(ret.value.val) = Len(Loaded.data)
         /\ \A i \in 1..Len(Loaded.data) : ret.value.val[i] = Loaded.data[i]

\* A set node whose payload holds the same cell twice was loaded.
C9_Witness ==
  /\ ret.op = "load"
  /\ TagOf(Loaded) = "<class 'set'>"
  /\ Len(Loaded.data) = 2
  /\ Loaded.data[1] = Loaded.data[2]
  /\ Cardinality(ret.value.val) = 1

\* C10 (python_subdtype): after any sequence of dumps a node carries a
\* python_subdtype attribute exactly when its tag is python_dtype, and the
\* attribute is then one of the four keys of the loader's numeric-kind
\* table, so that the loader's lookup finds a constructor.
C10_SubdtypeIffPythonDtype ==
  \A name \in DOMAIN h_group :
    LET h_node == h_group[name]
    IN /\ "python_subdtype" \in DOMAIN h_node.attrs
            <=> h_node.attrs["type"] = <<"python_dtype">>
       /\ "python_subdtype" \in DOMAIN h_node.attrs =>
            /\ h_node.attrs["python_subdtype"] \in
                 {"<class 'int'>", "<class 'float'>", "<class 'bool'>",
                  "<class 'complex'>"}
            /\ type_dict_get(h_node.attrs["python_subdtype"]) # "None"

\* The group holds a python_dtype node and a node of another tag.
C10_Witness ==
  /\ \E name \in DOMAIN h_group : TagOf(h_group[name]) = "python_dtype"
  /\ \E name \in DOMAIN h_group : TagOf(h_group[name]) = "bytes"

====
